---- MODULE Spec2Model ----
(***************************************************************************)
(* Model of the auto-batching proxy of src/src/main.rs.                    *)
(*                                                                         *)
(* handle_query (one instance per HTTP request) builds a Job, enqueues it  *)
(* on the mpsc channel and awaits its oneshot receiver.  handle_batch (one *)
(* background task) loops: collect a batch under a size-or-alarm select,   *)
(* post it upstream, normalise the reply and resolve the oneshot senders.  *)
(*                                                                         *)
(* Time is counted in ticks elapsed since alarm_clock was created.  The    *)
(* numeric constants of the source (32 jobs, 10000 ms, 1024 slots) are     *)
(* scaled down to values TLC can enumerate; no claim depends on the exact  *)
(* numbers.                                                                *)
(***************************************************************************)
EXTENDS Integers, Sequences, FiniteSets, TLC

\* ------------------------------------------------------------------ bounds
\* Number of HTTP requests (callers) that may ever arrive.
NumCallers == 2
\* MAX_BATCH_SIZE, main.rs:72 (32 in the source), scaled.
MAX_BATCH_SIZE == 2
\* MAX_WAIT_TIME_MILLIS, main.rs:73 (10000 ms in the source), in ticks.
MAX_WAIT_TIME == 2
\* mpsc::channel::<Job>(1024), main.rs:103, scaled.
CHANNEL_CAPACITY == 2
\* The clock is observed up to one tick past the deadline.
MaxElapsed == MAX_WAIT_TIME + 1
\* Upstream may answer with up to one result more than a full batch.
MaxResultLen == MAX_BATCH_SIZE + 1

Callers == 1 .. NumCallers

\* ------------------------------------------------------------ JSON values
\* Result values the upstream may put in its list (opaque embeddings).
Results == {"r1", "r2"}

\* serde_json::json!({"error": "upstream failed"})
UpstreamFailed == "{error: upstream failed}"
\* serde_json::json!("Batching Failed. Try again.")
BatchingFailed == "Batching Failed. Try again."
\* serde_json::json!("Failed to batch.")
FailedToBatch == "Failed to batch."

\* The result lists the upstream may answer with: every list of at most
\* MaxResultLen values in which neighbouring positions carry different values,
\* so that a result delivered to the wrong position shows.
Other(x) == IF x = "r1" THEN "r2" ELSE "r1"
Alternating(first, n) == [i \in 1 .. n |-> IF i % 2 = 1 THEN first ELSE Other(first)]
ResultLists == {Alternating(x, n) : x \in Results, n \in 0 .. MaxResultLen}

\* A JSON leaf: null, a string, or an array of result values.
JLeaf(t, items) == [t |-> t, items |-> items]
JNullLeaf == JLeaf("null", <<>>)
\* A JSON value as the upstream may send it: a leaf, or an object with one
\* member `key: member`.
JNull == [t |-> "null", items |-> <<>>, key |-> "", member |-> JNullLeaf]
JStr == [t |-> "string", items |-> <<>>, key |-> "", member |-> JNullLeaf]
JArr(R) == [t |-> "array", items |-> R, key |-> "", member |-> JNullLeaf]
JObj(k, leaf) == [t |-> "object", items |-> <<>>, key |-> k, member |-> leaf]
JData(R) == JObj("data", JLeaf("array", R))

JsonValues ==
    {JNull, JStr, JObj("data", JLeaf("string", <<>>)), JObj("error", JLeaf("string", <<>>))}
    \cup {JArr(R) : R \in ResultLists}
    \cup {JData(R) : R \in ResultLists}
    \cup {JObj("error", JLeaf("array", Alternating("r1", MAX_BATCH_SIZE)))}

\* --------------------------------------------------- upstream call outcomes
\* client.post(..).send().await is Err (no response at all).
NetErr == [kind |-> "neterr", status |-> 0, parsed |-> FALSE, val |-> JNull]
\* A response arrived; its body did not parse as JSON (json().await is Err).
HttpGarbage(s) == [kind |-> "http", status |-> s, parsed |-> FALSE, val |-> JNull]
\* A response arrived and its body parsed to v.
HttpJson(s, v) == [kind |-> "http", status |-> s, parsed |-> TRUE, val |-> v]
\* No call has returned in this cycle.
NoResp == [kind |-> "none", status |-> 0, parsed |-> FALSE, val |-> JNull]

Statuses == {200, 500}
Is2xx(s) == s >= 200 /\ s < 300

Outcomes ==
    {NetErr}
    \cup {HttpGarbage(s) : s \in Statuses}
    \cup {HttpJson(s, v) : s \in Statuses, v \in JsonValues}

\* ------------------------------------------------------------------ state
VARIABLES
    callers,         \* handle_query instance j: "new", "waiting", "done", "gone"
    response,        \* the embedding handle_query j returned ("" before)
    queue,           \* the mpsc channel buffer: jobs in enqueue order
    closed,          \* every mpsc::Sender has been dropped (server stopped)
    handle,          \* the oneshot channel of job j
    pc,              \* position of handle_batch: "start", "loop", "select", "send",
                     \* "await"; "dead" once the task has panicked
    batch,           \* the Vec<Job> of the current cycle
    elapsed,         \* ticks since alarm_clock was created
    firstAt,         \* value of elapsed when the first job was pushed, -1 if none
    closedBy,        \* how the inner while was left: "none", "size", "alarm", "eos"
    eosSeen,         \* job_receiver.recv() has returned None
    inflight,        \* upstream calls issued and not yet returned
    copies_to_send,  \* the inputs of the call in flight
    resp,            \* the outcome of the upstream call of this cycle
    served           \* the batch that outcome was distributed to

vars == <<callers, response, queue, closed, handle, pc, batch, elapsed, firstAt,
          closedBy, eosSeen, inflight, copies_to_send, resp, served>>

callerVars == <<callers, response>>
cycleVars == <<batch, elapsed, firstAt, closedBy, copies_to_send, resp, served>>

\* payload.inputs of request j: requests carry alternating texts.
InputOf(j) == IF j % 2 = 1 THEN "a" ELSE "b"

\* oneshot::channel() as created by handle_query.
Pending == [state |-> "pending", value |-> ""]
\* inner_sender.send(v) with the receiver still there.
Sent(v) == [state |-> "sent", value |-> v]
\* inner_sender.send(v) returned Err(v): the receiver was dropped.
Refused == [state |-> "refused", value |-> ""]
\* inner_sender was dropped without a send.
Dropped == [state |-> "dropped", value |-> ""]

Init ==
    /\ callers = [j \in Callers |-> "new"]
    /\ response = [j \in Callers |-> ""]
    /\ queue = <<>>
    /\ closed = FALSE
    /\ handle = [j \in Callers |-> Pending]
    /\ pc = "start"
    /\ batch = <<>>
    /\ elapsed = 0
    /\ firstAt = -1
    /\ closedBy = "none"
    /\ eosSeen = FALSE
    /\ inflight = 0
    /\ copies_to_send = <<>>
    /\ resp = NoResp
    /\ served = <<>>

\* ----------------------------------------------------------- handle_query
\* sender.send(job).await completes: the job is in the channel.  Requests
\* are numbered in the order in which their enqueues complete.
Submit(j) ==
    /\ callers[j] = "new"
    /\ \A k \in 1 .. j - 1 : callers[k] # "new"
    /\ ~closed
    /\ pc # "dead"
    /\ Len(queue) < CHANNEL_CAPACITY
    /\ queue' = Append(queue, j)
    /\ callers' = [callers EXCEPT ![j] = "waiting"]
    /\ UNCHANGED <<response, closed, handle, pc, eosSeen, inflight>>
    /\ UNCHANGED cycleVars

\* SubmitFails that leaves the job in the channel although send was Err.
SubmitFailsStillQueued(j) ==
    /\ callers[j] = "new"
    /\ \A k \in 1 .. j - 1 : callers[k] # "new"
    /\ ~closed
    /\ pc = "dead"
    /\ callers' = [callers EXCEPT ![j] = "done"]
    /\ response' = [response EXCEPT ![j] = FailedToBatch]
    /\ queue' = Append(queue, j)
    /\ UNCHANGED <<closed, handle, pc, eosSeen, inflight>>
    /\ UNCHANGED cycleVars

\* sender.send(job).await is Err: the receiver is gone.  The job comes back
\* in the error and is dropped; the caller is answered at once.
SubmitFails(j) ==
    /\ callers[j] = "new"
    /\ \A k \in 1 .. j - 1 : callers[k] # "new"
    /\ ~closed
    /\ pc = "dead"
    /\ callers' = [callers EXCEPT ![j] = "done"]
    /\ response' = [response EXCEPT ![j] = FailedToBatch]
    /\ handle' = [handle EXCEPT ![j] = Dropped]
    /\ UNCHANGED <<queue, closed, pc, eosSeen, inflight>>
    /\ UNCHANGED cycleVars

\* What handle_query returns for the state of its oneshot channel.
ResponseOf(h) == IF h.state = "sent" THEN h.value ELSE BatchingFailed

\* inner_receiver.await completes and the response is returned.
Receive(j) ==
    /\ callers[j] = "waiting"
    /\ handle[j].state \in {"sent", "dropped"}
    /\ callers' = [callers EXCEPT ![j] = "done"]
    /\ response' = [response EXCEPT ![j] = ResponseOf(handle[j])]
    /\ UNCHANGED <<queue, closed, handle, pc, eosSeen, inflight>>
    /\ UNCHANGED cycleVars

\* The client disconnects: the handler future, and inner_receiver with it,
\* is dropped.  A disconnect after the sender was consumed is not told apart
\* from a delivered response: handle_batch cannot observe it.
Abandon(j) ==
    /\ callers[j] = "waiting"
    /\ handle[j].state = "pending"
    /\ callers' = [callers EXCEPT ![j] = "gone"]
    /\ UNCHANGED <<response, queue, closed, handle, pc, eosSeen, inflight>>
    /\ UNCHANGED cycleVars

\* The server stops: every clone of job_sender is dropped.
Shutdown ==
    /\ ~closed
    /\ closed' = TRUE
    /\ UNCHANGED <<queue, handle, pc, eosSeen, inflight>>
    /\ UNCHANGED callerVars
    /\ UNCHANGED cycleVars

\* ----------------------------------------------------------- handle_batch
\* reqwest::Client::new() returns: handle_batch enters its loop.
ClientNew ==
    /\ pc = "start"
    /\ pc' = "loop"
    /\ UNCHANGED <<queue, closed, handle, eosSeen, inflight>>
    /\ UNCHANGED callerVars
    /\ UNCHANGED cycleVars

\* reqwest::Client::new() panics (no TLS backend): the task ends before its
\* loop, job_receiver is dropped and the jobs buffered in the channel with it.
ClientNewPanics ==
    /\ pc = "start"
    /\ pc' = "dead"
    /\ queue' = <<>>
    /\ handle' = [j \in Callers |->
                    IF \E i \in 1 .. Len(queue) : queue[i] = j THEN Dropped ELSE handle[j]]
    /\ UNCHANGED <<closed, eosSeen, inflight>>
    /\ UNCHANGED callerVars
    /\ UNCHANGED cycleVars

\* LoopTop with the batch vector kept from the cycle before.
LoopTopKeepsBatch ==
    /\ pc = "loop"
    /\ batch' = served
    /\ elapsed' = 0
    /\ firstAt' = -1
    /\ closedBy' = "none"
    /\ copies_to_send' = <<>>
    /\ resp' = NoResp
    /\ served' = <<>>
    /\ pc' = "select"
    /\ UNCHANGED <<queue, closed, handle, eosSeen, inflight>>
    /\ UNCHANGED callerVars

\* Top of `loop`: a fresh batch and a fresh alarm_clock.
LoopTop ==
    /\ pc = "loop"
    /\ batch' = <<>>
    /\ elapsed' = 0
    /\ firstAt' = -1
    /\ closedBy' = "none"
    /\ copies_to_send' = <<>>
    /\ resp' = NoResp
    /\ served' = <<>>
    /\ pc' = "select"
    /\ UNCHANGED <<queue, closed, handle, eosSeen, inflight>>
    /\ UNCHANGED callerVars

\* Time passes while handle_batch is suspended in select!.
Tick ==
    /\ pc = "select"
    /\ elapsed < MaxElapsed
    /\ elapsed' = elapsed + 1
    /\ UNCHANGED <<queue, closed, handle, pc, batch, firstAt, closedBy, eosSeen,
                   inflight, copies_to_send, resp, served>>
    /\ UNCHANGED callerVars

\* AfterPush with the loop test written `<=`: the batch is closed one job late.
AfterPushLate(b) ==
    IF Len(b) > MAX_BATCH_SIZE THEN "send" ELSE "select"

\* Where control goes after batch.push(job): the `> MAX_BATCH_SIZE` break,
\* else the `while batch.len() < MAX_BATCH_SIZE` test.
AfterPush(b) ==
    IF Len(b) > MAX_BATCH_SIZE THEN "send"
    ELSE IF Len(b) < MAX_BATCH_SIZE THEN "select"
    ELSE "send"

\* RecvJob taking the job enqueued last instead of the one enqueued first.
RecvJobLifo ==
    /\ pc = "select"
    /\ queue # <<>>
    /\ batch' = Append(batch, queue[Len(queue)])
    /\ queue' = SubSeq(queue, 1, Len(queue) - 1)
    /\ firstAt' = IF batch = <<>> THEN elapsed ELSE firstAt
    /\ pc' = AfterPush(batch')
    /\ closedBy' = IF pc' = "send" THEN "size" ELSE closedBy
    /\ UNCHANGED <<closed, handle, elapsed, eosSeen, inflight, copies_to_send,
                   resp, served>>
    /\ UNCHANGED callerVars

\* RecvJob with the sleep created inside the while: every arrival restarts
\* the timer.
RecvJobRestartsTimer ==
    /\ pc = "select"
    /\ queue # <<>>
    /\ batch' = Append(batch, Head(queue))
    /\ queue' = Tail(queue)
    /\ firstAt' = IF batch = <<>> THEN elapsed ELSE firstAt
    /\ pc' = AfterPush(batch')
    /\ closedBy' = IF pc' = "send" THEN "size" ELSE closedBy
    /\ elapsed' = 0
    /\ UNCHANGED <<closed, handle, eosSeen, inflight, copies_to_send, resp, served>>
    /\ UNCHANGED callerVars

\* select! takes the recv branch with Some(job).
RecvJob ==
    /\ pc = "select"
    /\ queue # <<>>
    /\ batch' = Append(batch, Head(queue))
    /\ queue' = Tail(queue)
    /\ firstAt' = IF batch = <<>> THEN elapsed ELSE firstAt
    /\ pc' = AfterPush(batch')
    /\ closedBy' = IF pc' = "send" THEN "size" ELSE closedBy
    /\ UNCHANGED <<closed, handle, elapsed, eosSeen, inflight, copies_to_send,
                   resp, served>>
    /\ UNCHANGED callerVars

\* select! takes the recv branch with None: `break` out of the while.
RecvNone ==
    /\ pc = "select"
    /\ queue = <<>>
    /\ closed
    /\ pc' = "send"
    /\ closedBy' = "eos"
    /\ eosSeen' = TRUE
    /\ UNCHANGED <<queue, closed, handle, batch, elapsed, firstAt, inflight,
                   copies_to_send, resp, served>>
    /\ UNCHANGED callerVars

\* select! takes the alarm_clock branch: `break` out of the while.
AlarmFires ==
    /\ pc = "select"
    /\ elapsed >= MAX_WAIT_TIME
    /\ pc' = "send"
    /\ closedBy' = "alarm"
    /\ UNCHANGED <<queue, closed, handle, batch, elapsed, firstAt, eosSeen,
                   inflight, copies_to_send, resp, served>>
    /\ UNCHANGED callerVars

\* CopiesOf collecting the inputs from the back of the batch.
CopiesOfReversed(b) == [i \in 1 .. Len(b) |-> InputOf(b[Len(b) + 1 - i])]

\* batch.iter().map(|x| x.input.clone()).collect()
CopiesOf(b) == [i \in 1 .. Len(b) |-> InputOf(b[i])]

\* UpstreamSend with the call handed to a spawned task instead of awaited:
\* the loop goes on while the call is outstanding.
UpstreamSendDetached ==
    /\ pc = "send"
    /\ copies_to_send' = CopiesOf(batch)
    /\ inflight' = inflight + 1
    /\ pc' = "loop"
    /\ UNCHANGED <<queue, closed, handle, batch, elapsed, firstAt, closedBy,
                   eosSeen, resp, served>>
    /\ UNCHANGED callerVars

\* client.post(..).json(..).send() is issued and awaited.
UpstreamSend ==
    /\ pc = "send"
    /\ copies_to_send' = CopiesOf(batch)
    /\ inflight' = inflight + 1
    /\ pc' = "await"
    /\ UNCHANGED <<queue, closed, handle, batch, elapsed, firstAt, closedBy,
                   eosSeen, resp, served>>
    /\ UNCHANGED callerVars

\* Normalise without the "data" branch: only a bare array is recognised.
NormaliseBareOnly(val) == IF val.t = "array" THEN val.items ELSE <<>>

\* val.get("data").and_then(as_array), else val.as_array(), else vec![].
Normalise(val) ==
    IF val.t = "object" /\ val.key = "data" /\ val.member.t = "array"
    THEN val.member.items
    ELSE IF val.t = "array" THEN val.items
    ELSE <<>>

\* job.inner_sender.send(v): Err(v), ignored, when the receiver is gone.
SendTo(c, job, v) == IF c[job] = "gone" THEN Refused ELSE Sent(v)

\* FailAll that stops after the first job of the batch.
FailAllFirstOnly(h, c, b) ==
    [j \in Callers |->
        IF \E i \in 1 .. Len(b) : b[i] = j
        THEN IF b[1] = j THEN IF c[j] = "gone" THEN Refused ELSE Sent(UpstreamFailed)
             ELSE Dropped
        ELSE h[j]]

\* batch.into_iter().for_each(|job| job.inner_sender.send(upstream failed))
FailAll(h, c, b) ==
    [j \in Callers |->
        IF \E i \in 1 .. Len(b) : b[i] = j THEN SendTo(c, j, UpstreamFailed) ELSE h[j]]

\* ZipSend pairing the batch with the results taken from the back.
ZipSendReversed(h, c, b, results) ==
    [j \in Callers |->
        IF \E i \in 1 .. Len(b) : b[i] = j
        THEN LET i == CHOOSE k \in 1 .. Len(b) : b[k] = j
             IN  IF i <= Len(results)
                 THEN IF c[j] = "gone" THEN Refused
                      ELSE Sent(results[Len(results) + 1 - i])
                 ELSE Dropped
        ELSE h[j]]

\* ZipSend that keeps the jobs zip does not reach alive, their handles pending.
ZipSendLeavesPending(h, c, b, results) ==
    [j \in Callers |->
        IF \E i \in 1 .. Len(b) : b[i] = j
        THEN LET i == CHOOSE k \in 1 .. Len(b) : b[k] = j
             IN  IF i <= Len(results)
                 THEN IF c[j] = "gone" THEN Refused ELSE Sent(results[i])
                 ELSE h[j]
        ELSE h[j]]

\* ZipSend that gives up at the first send that is refused (the Err of send
\* propagated instead of ignored): the jobs after it are dropped.
ZipSendStopsAtRefused(h, c, b, results) ==
    [j \in Callers |->
        IF \E i \in 1 .. Len(b) : b[i] = j
        THEN LET i == CHOOSE k \in 1 .. Len(b) : b[k] = j
             IN  IF i > Len(results) THEN Dropped
                 ELSE IF c[j] = "gone" THEN Refused
                 ELSE IF \E k \in 1 .. i - 1 : c[b[k]] = "gone" THEN Dropped
                 ELSE Sent(results[i])
        ELSE h[j]]

\* for (job, result) in batch.into_iter().zip(results) { send(result) };
\* the jobs zip does not reach are dropped with the iterator.
ZipSend(h, c, b, results) ==
    [j \in Callers |->
        IF \E i \in 1 .. Len(b) : b[i] = j
        THEN LET i == CHOOSE k \in 1 .. Len(b) : b[k] = j
             IN  IF i <= Len(results) THEN SendTo(c, j, results[i]) ELSE Dropped
        ELSE h[j]]

\* The match on the outcome of the call: the oneshot channels afterwards.
Distributed(h, c, b, o) ==
    IF o.kind = "neterr" THEN FailAll(h, c, b)
    ELSE IF ~o.parsed THEN FailAll(h, c, b)
    ELSE ZipSend(h, c, b, Normalise(o.val))

\* UpstreamReturn that ends the task when the call or the parse failed (the
\* error propagated instead of matched).
UpstreamReturnStopsOnError ==
    /\ pc = "await"
    /\ inflight > 0
    /\ \E o \in Outcomes :
          /\ handle' = Distributed(handle, callers, batch, o)
          /\ resp' = o
          /\ pc' = IF o.kind = "neterr" \/ ~o.parsed THEN "dead" ELSE "loop"
    /\ served' = batch
    /\ batch' = <<>>
    /\ inflight' = inflight - 1
    /\ UNCHANGED <<queue, closed, elapsed, firstAt, closedBy, eosSeen, copies_to_send>>
    /\ UNCHANGED callerVars

\* The call returns; the reply is parsed, normalised and distributed.
UpstreamReturn ==
    /\ pc = "await"
    /\ inflight > 0
    /\ \E o \in Outcomes :
          /\ handle' = Distributed(handle, callers, batch, o)
          /\ resp' = o
    /\ served' = batch
    /\ batch' = <<>>
    /\ inflight' = inflight - 1
    /\ pc' = "loop"
    /\ UNCHANGED <<queue, closed, elapsed, firstAt, closedBy, eosSeen, copies_to_send>>
    /\ UNCHANGED callerVars

Next ==
    \/ \E j \in Callers : Submit(j)
    \/ \E j \in Callers : SubmitFails(j)
    \/ \E j \in Callers : Receive(j)
    \/ \E j \in Callers : Abandon(j)
    \/ Shutdown
    \/ ClientNew
    \/ ClientNewPanics
    \/ LoopTop
    \/ Tick
    \/ RecvJob
    \/ RecvNone
    \/ AlarmFires
    \/ UpstreamSend
    \/ UpstreamReturn

Spec == Init /\ [][Next]_vars

\* The tokio runtime polls every task that can make progress, time passes,
\* every upstream call returns, and select! takes a ready recv branch in the
\* long run (its branch order is drawn afresh at every poll).
Fairness ==
    /\ WF_vars(ClientNew \/ ClientNewPanics)
    /\ WF_vars(LoopTop)
    /\ WF_vars(Tick)
    /\ SF_vars(RecvJob)
    /\ WF_vars(RecvNone)
    /\ WF_vars(AlarmFires)
    /\ WF_vars(UpstreamSend)
    /\ WF_vars(UpstreamReturn)
    /\ \A j \in Callers : WF_vars(Receive(j))

FairSpec == Spec /\ Fairness

TypeOK ==
    /\ callers \in [Callers -> {"new", "waiting", "done", "gone"}]
    /\ pc \in {"start", "loop", "select", "send", "await", "dead"}
    /\ closedBy \in {"none", "size", "alarm", "eos"}
    /\ elapsed \in 0 .. MaxElapsed
    /\ inflight \in Nat

\* ---------------------------------------------------------------- claims
\* The state right after a call returned and its reply was distributed.
JustDistributed == pc = "loop" /\ resp.kind # "none"
\* The reply was a parsed body.
ParsedReply == resp.kind = "http" /\ resp.parsed
\* The reply carried the result list R in one of the two accepted shapes.
Carries(R) == ParsedReply /\ resp.val \in {JArr(R), JData(R)}
\* What job j of the distributed batch was resolved with is v; a caller that
\* was gone when its handle was resolved has nothing to observe.
ResolvedWith(j, v) ==
    /\ handle[j] \in {Sent(v), Refused}
    /\ (handle[j] = Refused) <=> (callers[j] = "gone")
    /\ callers[j] = "done" => response[j] = v
\* Every caller of the distributed batch has returned its response.
AllServedDone == \A i \in 1 .. Len(served) : callers[served[i]] = "done"

\* C1: when a batch of N jobs gets a successful reply whose normalised list
\* has exactly N values, the caller of the job at position i receives
\* result[i] and no other position's result.
C1_PositionalResults ==
    \A R \in ResultLists :
        (JustDistributed /\ Carries(R) /\ Is2xx(resp.status) /\ Len(R) = Len(served))
        => \A i \in 1 .. Len(served) : ResolvedWith(served[i], R[i])

C1_Witness ==
    /\ JustDistributed
    /\ Len(served) = MAX_BATCH_SIZE
    /\ \E R \in ResultLists :
          /\ resp = HttpJson(200, JArr(R))
          /\ Len(R) = Len(served)
          /\ \A i \in 1 .. Len(served) :
                callers[served[i]] = "done" /\ response[served[i]] = R[i]

\* C2: when the call fails at the network level, or the body of the reply
\* does not parse, every job of the batch is resolved with the uniform
\* failure value; none is dropped or left pending.
C2_UniformFailure ==
    (JustDistributed /\ (resp.kind = "neterr" \/ (resp.kind = "http" /\ ~resp.parsed)))
    => \A i \in 1 .. Len(served) : ResolvedWith(served[i], UpstreamFailed)

C2_Witness ==
    /\ JustDistributed
    /\ resp = NetErr
    /\ Len(served) = MAX_BATCH_SIZE
    /\ AllServedDone
    /\ \A i \in 1 .. Len(served) : response[served[i]] = UpstreamFailed

\* C3: at most one upstream call is outstanding in every reachable state,
\* whatever arrives on the queue in the meantime.
C3_OneOutstandingCall == inflight <= 1 /\ (inflight = 1 <=> pc = "await")

C3_Witness == pc = "await" /\ inflight = 1 /\ queue # <<>>

\* C4: a batch never holds more than MAX_BATCH_SIZE jobs, and the push that
\* brings it to MAX_BATCH_SIZE closes it at once: handle_batch is never back
\* in the select with a full batch.
C4_BatchBound ==
    /\ Len(batch) <= MAX_BATCH_SIZE
    /\ Len(copies_to_send) <= MAX_BATCH_SIZE
    /\ Len(served) <= MAX_BATCH_SIZE
    /\ Len(batch) = MAX_BATCH_SIZE => (pc \in {"send", "await"} /\ closedBy = "size")

C4_Witness ==
    /\ pc = "send"
    /\ closedBy = "size"
    /\ Len(batch) = MAX_BATCH_SIZE
    /\ elapsed < MAX_WAIT_TIME

\* C5: the deadline of a batch is measured from the admission of its first
\* job: a batch closed by the alarm has held its first job for at least
\* MAX_WAIT_TIME.
C5_DeadlineFromFirstJob ==
    (pc = "send" /\ closedBy = "alarm" /\ firstAt >= 0)
    => elapsed - firstAt >= MAX_WAIT_TIME

\* C6: no upstream call is issued for an empty batch: outside shutdown, a
\* call in flight carries between 1 and MAX_BATCH_SIZE inputs, and an alarm
\* that finds the batch empty leads to no call.
C6_NoEmptyDispatch ==
    (pc = "await" /\ closedBy \in {"size", "alarm"})
    => (Len(copies_to_send) >= 1 /\ Len(copies_to_send) <= MAX_BATCH_SIZE)

\* C7: at end-of-stream handle_batch stops: with an empty batch no call is
\* issued, with a partial batch that batch is dispatched once, and no
\* further assembly cycle starts afterwards.
C7_StopsAtEndOfStream ==
    eosSeen =>
        /\ pc # "select"
        /\ pc \in {"send", "await"} => (batch # <<>> /\ closedBy = "eos")

\* C8: when the parsed reply normalises to fewer results than the batch has
\* jobs, every unmatched job is resolved through its handle with an explicit
\* failure value; none is left unresolved, none gets a result.
C8_UnmatchedJobsFailed ==
    (JustDistributed /\ ParsedReply /\ Len(Normalise(resp.val)) < Len(served))
    => \A i \in Len(Normalise(resp.val)) + 1 .. Len(served) :
          \/ handle[served[i]] = Refused
          \/ handle[served[i]].state = "sent" /\ handle[served[i]].value \notin Results

\* C9: a non-2xx reply is a transport failure: whatever its body, every job
\* of the batch is resolved with the uniform failure value.
C9_Non2xxIsFailure ==
    (JustDistributed /\ resp.kind = "http" /\ ~Is2xx(resp.status))
    => \A i \in 1 .. Len(served) : ResolvedWith(served[i], UpstreamFailed)

\* The handles a batch b ends with when the list R is dealt out by position:
\* R[i] to the job at position i, nothing to the jobs R does not reach.
DealtByPosition(R) ==
    \A i \in 1 .. Len(served) :
        IF i <= Len(R) THEN ResolvedWith(served[i], R[i])
        ELSE handle[served[i]] = Dropped

\* C10: for the same batch, the reply `R` and the reply `{"data": R}` give
\* every job the same outcome: both are dealt out as R, by position.
C10_ShapeEquivalence ==
    /\ pc = "await" =>
          \A R \in ResultLists, s \in Statuses :
              Distributed(handle, callers, batch, HttpJson(s, JArr(R)))
                  = Distributed(handle, callers, batch, HttpJson(s, JData(R)))
    /\ JustDistributed => \A R \in ResultLists : Carries(R) => DealtByPosition(R)

C10_Witness ==
    /\ JustDistributed
    /\ Len(served) = MAX_BATCH_SIZE
    /\ AllServedDone
    /\ \E R \in ResultLists :
          /\ Len(R) = Len(served)
          /\ resp = HttpJson(200, JData(R))
          /\ \A i \in 1 .. Len(served) : response[served[i]] = R[i]

\* The jobs held by a sequence of jobs.
JobsOf(q) == {q[i] : i \in 1 .. Len(q)}

\* C11: every completion handle is resolved at most once: a handle that has
\* left the pending state never changes again, a caller that has returned a
\* response never returns another, and the return of the upstream call
\* consumes the handle of every job of the batch.
C11_ResolvedAtMostOnce ==
    [][/\ \A j \in Callers :
             /\ handle[j] # Pending => handle'[j] = handle[j]
             /\ callers[j] = "done" =>
                   (callers'[j] = "done" /\ response'[j] = response[j])
       /\ (pc = "await" /\ pc' = "loop") =>
             \A j \in JobsOf(batch) : handle[j] = Pending /\ handle'[j] # Pending
      ]_vars

C11_Witness ==
    /\ JustDistributed
    /\ served # <<>>
    /\ \E j \in Callers :
          j \notin JobsOf(served) /\ handle[j].state = "sent" /\ callers[j] = "done"

\* C12: no caller hangs: with a fairly scheduled background task and upstream
\* calls that return, every caller whose job was enqueued gets a terminal
\* outcome (or leaves on its own), also when the queue closes first.
C12_NoCallerHangs ==
    \A j \in Callers : (callers[j] = "waiting") ~> (callers[j] \in {"done", "gone"})

C12_Witness ==
    /\ closed
    /\ eosSeen
    /\ \E j \in Callers : callers[j] = "done" /\ response[j] = BatchingFailed
    /\ \E j \in Callers : callers[j] = "done" /\ response[j] \in Results

\* C13: when the deadline has elapsed and a job is available in the same
\* instant, size wins: if that job fills the batch, the select is left with
\* the job admitted and the batch full, never short by the alarm.
C13_SizeWinsTie ==
    [][(/\ pc = "select"
        /\ elapsed >= MAX_WAIT_TIME
        /\ queue # <<>>
        /\ Len(batch) + 1 = MAX_BATCH_SIZE
        /\ pc' = "send")
       => (Len(batch') = MAX_BATCH_SIZE /\ closedBy' = "size")
      ]_vars

\* The batch of this cycle was a bad one: its call failed, its reply did not
\* parse, or the reply had the wrong shape or count.
BadBatchDistributed ==
    /\ resp.kind # "none"
    /\ served # <<>>
    /\ \/ resp.kind = "neterr"
       \/ ~resp.parsed
       \/ Len(Normalise(resp.val)) # Len(served)
\* handle_batch is in its loop.
InLoop == pc \in {"loop", "select", "send", "await"}

\* C14: one bad batch does not stop the service: after it a new assembly cycle
\* starts, the jobs waiting in the channel are assembled, dispatched and
\* resolved, and the task never leaves its loop.
C14_BadBatchDoesNotStop ==
    /\ BadBatchDistributed ~> (pc = "select")
    /\ \A j \in Callers :
          (BadBatchDistributed /\ j \in JobsOf(queue)) ~> (handle[j] # Pending)
    /\ [][InLoop => InLoop']_vars

C14_Witness ==
    /\ JustDistributed
    /\ served # <<>>
    /\ Is2xx(resp.status)
    /\ \E R \in ResultLists : Carries(R) /\ Len(R) = Len(served)
    /\ AllServedDone
    /\ \A i \in 1 .. Len(served) : response[served[i]] \in Results
    /\ \E j \in Callers :
          /\ j \notin JobsOf(served)
          /\ callers[j] = "done"
          /\ response[j] \in {UpstreamFailed, BatchingFailed}

\* C15: deadline trigger: a batch that is not filled closes when the alarm
\* fires, with exactly the jobs admitted so far, and is dispatched as it is;
\* the arrival of a job neither restarts nor extends the timer.
C15_DeadlineTrigger ==
    /\ [][/\ (pc = "select" /\ pc' = "send" /\ closedBy' = "alarm") =>
                /\ elapsed >= MAX_WAIT_TIME
                /\ Len(batch) < MAX_BATCH_SIZE
                /\ batch' = batch
                /\ queue' = queue
          /\ (pc = "select" /\ batch' # batch) => elapsed' = elapsed
         ]_vars
    /\ []((pc = "await" /\ closedBy = "alarm") =>
            /\ Len(copies_to_send) = Len(batch)
            /\ \A i \in 1 .. Len(batch) : copies_to_send[i] = InputOf(batch[i]))
    /\ (pc = "select") ~> (pc = "send")
    /\ (pc = "send") ~> (pc = "await")

C15_Witness ==
    /\ pc = "await"
    /\ closedBy = "alarm"
    /\ Len(batch) = 1
    /\ firstAt >= 1
    /\ elapsed = MAX_WAIT_TIME
    /\ copies_to_send = <<InputOf(batch[1])>>

\* C16: an admission failure is surfaced only to the submitting caller, as
\* "Failed to batch.": its job is in no channel and no batch, and the step
\* changes nothing of the batches or of the other callers.
C16_AdmissionFailureIsLocal ==
    /\ [](\A j \in Callers :
            response[j] = FailedToBatch =>
                /\ callers[j] = "done"
                /\ j \notin JobsOf(queue) \cup JobsOf(batch) \cup JobsOf(served))
    /\ [][\A j \in Callers :
            (callers[j] = "new" /\ callers'[j] = "done") =>
                /\ response'[j] = FailedToBatch
                /\ UNCHANGED <<queue, batch, served, copies_to_send, resp, pc, inflight>>
                /\ \A k \in Callers \ {j} :
                      /\ callers'[k] = callers[k]
                      /\ response'[k] = response[k]
                      /\ handle'[k] = handle[k]
         ]_vars

C16_Witness ==
    \E j, k \in Callers :
        /\ j # k
        /\ callers[j] = "done" /\ response[j] = FailedToBatch
        /\ callers[k] = "done" /\ response[k] = BatchingFailed

\* Every job handle_batch has taken out of the channel and out of its batch.
Finished == {j \in Callers : handle[j] # Pending}

\* C17: batches are processed strictly one after the other: whenever a job is
\* neither in the channel nor in the batch being assembled or dispatched, its
\* handle has been resolved or consumed; so every job of an earlier batch is
\* resolved before the first job of the next batch is dequeued.
C17_SequentialBatches ==
    \A j \in Callers :
        (callers[j] # "new" /\ j \notin JobsOf(queue) /\ j \notin JobsOf(batch))
        => handle[j] # Pending

C17_Witness ==
    /\ pc = "select"
    /\ batch # <<>>
    /\ \E j \in Callers : j \notin JobsOf(batch) /\ handle[j].state \in {"sent", "refused"}

\* q holds its jobs in the order of their enqueues.
InEnqueueOrder(q) == \A i, k \in 1 .. Len(q) : i < k => q[i] < q[k]

\* C18: FIFO admission: the batch followed by the channel holds the jobs in
\* the order in which their enqueues completed, and every job of an earlier
\* batch was enqueued before every job of the batch in assembly or of the
\* channel.
C18_FifoAdmission ==
    /\ InEnqueueOrder(batch \o queue)
    /\ InEnqueueOrder(served \o queue)
    /\ \A j \in Finished : \A k \in JobsOf(batch \o queue) : j < k

C18_Witness ==
    /\ pc = "send"
    /\ closedBy = "size"
    /\ elapsed = 0
    /\ Len(batch) = MAX_BATCH_SIZE
    /\ InEnqueueOrder(batch)

\* C19: resolving the handle of a caller that is gone is a no-op: the batch is
\* distributed to its end, the other jobs get their positional results or the
\* uniform failure, and handle_batch is back at the top of its loop.
C19_AbandonedCallerIsNoOp ==
    (resp.kind # "none" /\ \E i \in 1 .. Len(served) : callers[served[i]] = "gone")
    => /\ pc = "loop"
       /\ (resp.kind = "neterr" \/ ~resp.parsed) =>
             \A i \in 1 .. Len(served) : ResolvedWith(served[i], UpstreamFailed)
       /\ \A R \in ResultLists : Carries(R) => DealtByPosition(R)

C19_Witness ==
    /\ JustDistributed
    /\ Len(served) = MAX_BATCH_SIZE
    /\ handle[served[1]] = Refused
    /\ callers[served[Len(served)]] = "done"
    /\ response[served[Len(served)]] \in Results

\* The number of places of q that hold job j.
Occurrences(q, j) == Cardinality({i \in 1 .. Len(q) : q[i] = j})

\* C20: job conservation: a job that was enqueued and whose handle is still
\* pending is in the channel or in the batch, exactly once; and the inputs of
\* the call in flight are the inputs of the jobs of the batch, position by
\* position.
C20_JobConservation ==
    /\ \A j \in Callers :
          Occurrences(batch \o queue, j) =
              IF callers[j] # "new" /\ handle[j] = Pending THEN 1 ELSE 0
    /\ pc = "await" =>
          /\ Len(copies_to_send) = Len(batch)
          /\ \A i \in 1 .. Len(batch) : copies_to_send[i] = InputOf(batch[i])

C20_Witness ==
    /\ pc = "await"
    /\ Len(batch) = MAX_BATCH_SIZE
    /\ copies_to_send[1] = "a"
    /\ copies_to_send[2] = "b"

====
